---- MODULE Spec2Model ----
(***************************************************************************)
(* Arithmetic Machine (src/main.c): a stack-based virtual machine over     *)
(* doubles with two registers and absolute conditional jumps.              *)
(*                                                                         *)
(* One step of the model is one iteration of the for(;;) loop of run():    *)
(* fetch the opcode with NCODE, decode it, execute it.  A double is held   *)
(* as its IEEE-754 binary64 bit pattern, a sequence of 8 bytes with the    *)
(* most significant byte first.  Offsets into the bytecode are 0-based as  *)
(* in the source; the sequence `code' is 1-based, so offset p is           *)
(* code[p + 1].                                                            *)
(***************************************************************************)
EXTENDS Integers, Sequences, FiniteSets, TLC

VARIABLES
    code,           \* vm->code: the bytecode buffer (never written)
    pc,             \* vm->pc: int, offset of the next byte to fetch
    sp,             \* vm->sp: int, index of the top of the stack, -1 when empty
    stack,          \* vm->stack: the live slots 0 .. sp that lie in the array
    r1,             \* vm->r1
    r2,             \* vm->r2
    opcode,         \* the local `opcode' of run(): the byte fetched last
    status,         \* "running", or how run() ended
    out,            \* the values handed to printf("%f\n") so far, in order
    diag,           \* the diagnostic printed by a failing step
    oob,            \* how many out-of-bounds accesses the run has made
    LITTLE_ENDIAN,  \* the build: whether #if LITTLE_ENDIAN is taken
    hostLittleEndian \* the build: whether the host stores the low byte first

vars == <<code, pc, sp, stack, r1, r2, opcode, status, out, diag, oob,
          LITTLE_ENDIAN, hostLittleEndian>>

(***************************************************************************)
(* Program constants.                                                      *)
(***************************************************************************)
STACK_SIZE == 256

HALT      == 0
DCONST_M1 == 10
DCONST_0  == 11
DCONST_1  == 12
DCONST_2  == 13
DCONST    == 15
JEQ       == 16
JNE       == 17
JLT       == 18
JLE       == 19
JGT       == 20
JGE       == 21
ADD       == 96
SUB       == 97
MUL       == 98
DIV       == 100
NEG       == 112
NOP       == 240
PRINT     == 242
ST1       == 244
LD1       == 245
ST2       == 246
LD2       == 247

EXIT_SUCCESS == "success"
EXIT_FAILURE == "failure"

(***************************************************************************)
(* Bounds of the model.                                                    *)
(***************************************************************************)
\* Length of the longest program of the exhaustive family.
MaxLen == 3
\* Out-of-bounds accesses a run may survive before only a crash is explored.
MaxOob == 2

Byte == 0 .. 255

(***************************************************************************)
(* Byte order.                                                             *)
(***************************************************************************)
\* A faulty swap without the temporary, p[a] = p[b]; p[b] = p[a]: both bytes
\* end as the old p[b].
swap_NoTemp(p, a, b) == [p EXCEPT ![a + 1] = p[b + 1]]

\* swap(p, a, b): exchange the bytes at 0-based indexes a and b.
swap(p, a, b) == [p EXCEPT ![a + 1] = p[b + 1], ![b + 1] = p[a + 1]]

RECURSIVE ConvertLoop(_, _, _)
\* The loop of convertToLittleEndian from index i on.
ConvertLoop(p, i, size) ==
    IF i < size \div 2
        THEN ConvertLoop(swap(p, i, size - i - 1), i + 1, size)
        ELSE p

\* convertToLittleEndian(v, size) on the `size' bytes of v.
convertToLittleEndian(p, size) == ConvertLoop(p, 0, size)

\* What is done to the bytes copied out of the code: the swap is compiled in
\* under #if LITTLE_ENDIAN only.
HostOrder(mem, macro) ==
    IF macro THEN convertToLittleEndian(mem, Len(mem)) ELSE mem

\* The int held by 4 bytes of memory on a host of the given byte order:
\* two's complement, 32 bits.
IntOfMemory(mem, le) ==
    LET msb == IF le THEN mem[4] ELSE mem[1]
        b2  == IF le THEN mem[3] ELSE mem[2]
        b1  == IF le THEN mem[2] ELSE mem[3]
        lsb == IF le THEN mem[1] ELSE mem[4]
    IN  (IF msb >= 128 THEN msb - 256 ELSE msb) * 16777216
            + b2 * 65536 + b1 * 256 + lsb

\* The double held by 8 bytes of memory on a host of the given byte order, as
\* its bit pattern, most significant byte first.
DoubleOfMemory(mem, le) ==
    IF le THEN [i \in 1 .. 8 |-> mem[9 - i]] ELSE mem

(***************************************************************************)
(* Doubles.  Comparison and negation are defined on every bit pattern.     *)
(* Addition, multiplication and division are computed on the patterns      *)
(* whose value is m * 2^e with an odd m below SigLimit, where IEEE-754     *)
(* arithmetic is exact whenever the result is again such a value.          *)
(***************************************************************************)
SigLimit == 2 ^ 14
MaxShift == 15

Expo(p) == (p[1] % 128) * 16 + p[2] \div 16
FracIsZero(p) == p[2] % 16 = 0 /\ \A i \in 3 .. 8 : p[i] = 0
IsZero(p) == Expo(p) = 0 /\ FracIsZero(p)
IsNaN(p) == Expo(p) = 2047 /\ ~FracIsZero(p)
SignBit(p) == p[1] \div 128

\* The magnitude bytes, compared most significant first.
Magnitude(p) == [p EXCEPT ![1] = @ % 128]
LexLess(a, b) ==
    \E i \in 1 .. 8 : a[i] < b[i] /\ \A j \in 1 .. i - 1 : a[j] = b[j]
MagLess(p, q) == LexLess(Magnitude(p), Magnitude(q))

\* a == b, a < b and the rest on doubles.
DEq(p, q) == ~IsNaN(p) /\ ~IsNaN(q) /\ (p = q \/ (IsZero(p) /\ IsZero(q)))
DLt(p, q) ==
    /\ ~IsNaN(p) /\ ~IsNaN(q)
    /\ ~(IsZero(p) /\ IsZero(q))
    /\ IF SignBit(p) # SignBit(q) THEN SignBit(p) = 1
       ELSE IF SignBit(p) = 0 THEN MagLess(p, q)
       ELSE MagLess(q, p)
DNe(p, q) == ~DEq(p, q)
DLe(p, q) == DLt(p, q) \/ DEq(p, q)
DGt(p, q) == DLt(q, p)
DGe(p, q) == DLe(q, p)

\* -v: the sign bit flipped.
DNeg(p) == [p EXCEPT ![1] = (@ + 128) % 256]

\* The number of factors of two in m > 0 (m is below 2^30).
TrailingZeros(m) == CHOOSE k \in 0 .. 29 : m % 2 ^ k = 0 /\ m % 2 ^ (k + 1) # 0

\* m * 2^e with the factors of two moved out of m.
Strip(m, e) ==
    IF m = 0 THEN <<0, 0>>
    ELSE <<m \div 2 ^ TrailingZeros(m), e + TrailingZeros(m)>>

\* The number of bits of m (m is below 2^30).
BitLen(m) == CHOOSE l \in 0 .. 30 : m < 2 ^ l /\ (l = 0 \/ m >= 2 ^ (l - 1))

\* The top 28 fraction bits of a normal number, with the implicit leading one.
Significand28(p) ==
    268435456 + (p[2] % 16) * 16777216 + p[3] * 65536 + p[4] * 256 + p[5]

\* [neg, m, e]: the value (-1)^neg * m * 2^e of a pattern, m odd or zero.
Dyadic(p) ==
    IF IsZero(p) THEN [neg |-> SignBit(p) = 1, m |-> 0, e |-> 0]
    ELSE LET s == Strip(Significand28(p), Expo(p) - 1023 - 28)
         IN  [neg |-> SignBit(p) = 1, m |-> s[1], e |-> s[2]]

\* The patterns whose value the model computes with.
Exact(p) ==
    \/ IsZero(p)
    \/ /\ Expo(p) \in 1 .. 2046
       /\ p[6] = 0 /\ p[7] = 0 /\ p[8] = 0
       /\ Dyadic(p).m < SigLimit

\* Whether m * 2^e (m odd or zero) is a value the model computes with.
Fits(m, e) ==
    \/ m = 0
    \/ /\ m < SigLimit
       /\ e + BitLen(m) - 1 \in (-1022) .. 1023

\* The bit pattern of (-1)^neg * m * 2^e, for Fits(m, e).
Encode(neg, m, e) ==
    LET s == IF neg THEN 128 ELSE 0 IN
    IF m = 0 THEN <<s, 0, 0, 0, 0, 0, 0, 0>>
    ELSE LET l  == BitLen(m)
             ex == e + l - 1 + 1023
             f  == (m - 2 ^ (l - 1)) * 2 ^ (28 - (l - 1))
         IN  << s + ex \div 16,
                (ex % 16) * 16 + f \div 16777216,
                (f \div 65536) % 256,
                (f \div 256) % 256,
                f % 256,
                0, 0, 0 >>

\* The double an int literal or int expression converts to.
Dbl(n) ==
    LET s == Strip(IF n < 0 THEN -n ELSE n, 0) IN Encode(n < 0, s[1], s[2])

\* The signed sum of two dyadic values as <<neg, m, e>>, or <<>> when the
\* exponents lie too far apart for the model.
DyadicSum(a, b) ==
    IF a.m = 0 /\ b.m = 0 THEN <<a.neg /\ b.neg, 0, 0>>
    ELSE IF a.m = 0 THEN <<b.neg, b.m, b.e>>
    ELSE IF b.m = 0 THEN <<a.neg, a.m, a.e>>
    ELSE LET lo == IF a.e < b.e THEN a.e ELSE b.e IN
         IF a.e - lo > MaxShift \/ b.e - lo > MaxShift THEN <<>>
         ELSE LET sa == (IF a.neg THEN -1 ELSE 1) * a.m * 2 ^ (a.e - lo)
                  sb == (IF b.neg THEN -1 ELSE 1) * b.m * 2 ^ (b.e - lo)
                  t  == sa + sb
                  s  == Strip(IF t < 0 THEN -t ELSE t, lo)
              IN  <<t < 0, s[1], s[2]>>

DyadicProduct(a, b) ==
    IF a.m = 0 \/ b.m = 0 THEN <<a.neg # b.neg, 0, 0>>
    ELSE <<a.neg # b.neg, a.m * b.m, a.e + b.e>>

\* The quotient a / b for b # 0, or <<>> when it is not a dyadic value.
DyadicQuotient(a, b) ==
    IF a.m = 0 THEN <<a.neg # b.neg, 0, 0>>
    ELSE IF a.m % b.m # 0 THEN <<>>
    ELSE <<a.neg # b.neg, a.m \div b.m, a.e - b.e>>

\* a op b on dyadic values as <<neg, m, e>>, or <<>>.
DyadicResult(op, a, b) ==
    IF op = ADD THEN DyadicSum(a, b)
    ELSE IF op = SUB THEN DyadicSum(a, [b EXCEPT !.neg = ~@])
    ELSE IF op = MUL THEN DyadicProduct(a, b)
    ELSE IF b.m = 0 THEN <<>>
    ELSE DyadicQuotient(a, b)

\* a + b, a - b, a * b, a / b: the result as a set, empty when the model
\* does not compute it.
ArithResults(op, p, q) ==
    IF ~(Exact(p) /\ Exact(q)) THEN {}
    ELSE { Encode(t[1], t[2], t[3]) :
            t \in { x \in { DyadicResult(op, a, b) :
                                a \in {Dyadic(p)}, b \in {Dyadic(q)} } :
                        x # <<>> /\ Fits(x[2], x[3]) } }

\* Whether the model computes a op b, and its value.
Computable(op, p, q) == ArithResults(op, p, q) # {}
Apply(op, p, q) == CHOOSE v \in ArithResults(op, p, q) : TRUE

(***************************************************************************)
(* The opcode table.                                                       *)
(***************************************************************************)
ConstOps == {DCONST_M1, DCONST_0, DCONST_1, DCONST_2}
JumpOps  == {JEQ, JNE, JLT, JLE, JGT, JGE}
ArithOps == {ADD, SUB, MUL}
LoadOps  == {LD1, LD2}
StoreOps == {ST1, ST2}
Opcodes  ==
    {HALT, NOP, DCONST, DIV, NEG, PRINT}
        \cup ConstOps \cup JumpOps \cup ArithOps \cup LoadOps \cup StoreOps

\* The literal a DCONST_x case pushes.
ConstOf(op) ==
    IF op = DCONST_M1 THEN Dbl(-1)
    ELSE IF op = DCONST_0 THEN Dbl(0)
    ELSE IF op = DCONST_1 THEN Dbl(1)
    ELSE Dbl(2)

\* The condition of a jump case on (r1, r2).
Cond(op, a, b) ==
    IF op = JEQ THEN DEq(a, b)
    ELSE IF op = JNE THEN DNe(a, b)
    ELSE IF op = JLT THEN DLt(a, b)
    ELSE IF op = JLE THEN DLe(a, b)
    ELSE IF op = JGT THEN DGt(a, b)
    ELSE DGe(a, b)

(***************************************************************************)
(* The programs run.  main() holds three; the rest are the inputs of the   *)
(* model.                                                                  *)
(***************************************************************************)
bytecode == <<DCONST_2, DCONST_1, SUB, PRINT, HALT>>

readmebytecode ==
    <<DCONST, 64, 41, 20, 122, 225, 71, 174, 20, PRINT, HALT>>

fibonacciCode ==
    << DCONST_0, DCONST_0, PRINT, DCONST_1, DCONST_1, PRINT,
       ST2, ST1, LD1, LD2, ADD, ST1, LD1, LD1, PRINT,
       LD2, ADD, ST2, LD2, PRINT,
       LD1, LD2,
       DCONST, 64, 89, 0, 0, 0, 0, 0, 0,
       ST1,
       JGT, 0, 0, 0, 6,
       HALT >>

\* Division by zero, an undefined opcode, and a loop that only pushes.
divByZeroCode == <<DCONST_1, DCONST_0, DIV, PRINT, HALT>>
invalidCode   == <<255, HALT>>
pushLoopCode  == <<DCONST_0, JEQ, 0, 0, 0, 0>>

Fixtures ==
    {bytecode, readmebytecode, fibonacciCode, divByZeroCode, invalidCode,
     pushLoopCode}

\* Jump operands: offsets in the program (0, the jump itself, the NOP after
\* it), the offset one past the end, offsets far away, and values with the
\* top bit set.
JumpOperands ==
    { <<0, 0, 0, 0>>, <<0, 0, 0, 4>>, <<0, 0, 0, 9>>, <<0, 0, 0, 11>>,
      <<9, 0, 0, 0>>, <<0, 0, 1, 0>>, <<128, 0, 0, 0>>, <<240, 0, 0, 9>>,
      <<255, 255, 255, 255>> }

\* r1 and r2 set from two constants, then one jump at offset 4.
JumpPrograms ==
    { <<ca, ST1, cb, ST2, j>> \o t \o <<NOP, HALT>> :
        ca \in {DCONST_0, DCONST_1}, cb \in {DCONST_0, DCONST_1},
        j \in JumpOps, t \in JumpOperands }

\* Two constants pushed, then any one byte executed as an opcode.
OpPrograms ==
    { <<ca, cb, op, PRINT, HALT>> :
        ca \in ConstOps, cb \in ConstOps, op \in Opcodes \cup {1, 99, 255} }

\* Every byte string up to MaxLen over a small alphabet.
ShortBytes == {HALT, DCONST_1, DIV, ST1, PRINT, JNE}
ShortPrograms == UNION { [1 .. n -> ShortBytes] : n \in 1 .. MaxLen }

Programs == Fixtures \cup JumpPrograms \cup OpPrograms \cup ShortPrograms

\* What a read outside an array may find.
GarbageBytes   == {HALT, NOP, 255}
GarbageDoubles == {Dbl(0), Dbl(1)}

(***************************************************************************)
(* The state of the machine as one record, and the macros on it.  Each     *)
(* macro yields the set of its possible outcomes: one where every access   *)
(* lies inside its array, and otherwise (undefined behaviour) a crash or   *)
(* a read of whatever the memory holds there.                              *)
(***************************************************************************)
VM ==
    [pc |-> pc, sp |-> sp, stack |-> stack, r1 |-> r1, r2 |-> r2,
     status |-> status, out |-> out, diag |-> diag, oob |-> oob]

Running(m) == m.status = "running"
Crashed(m) == [m EXCEPT !.status = "crashed"]

InCode(p) == p >= 0 /\ p < Len(code)
InStack(i) == i >= 0 /\ i < STACK_SIZE
At(p) == code[p + 1]

\* NCODE(vm): vm->code[vm->pc++], as <<byte, vm>>.
NCODE(m) ==
    IF InCode(m.pc) THEN {<<At(m.pc), [m EXCEPT !.pc = @ + 1]>>}
    ELSE {<<0, Crashed(m)>>}
            \cup (IF m.oob < MaxOob
                    THEN { <<g, [m EXCEPT !.pc = @ + 1, !.oob = @ + 1]>> :
                            g \in GarbageBytes }
                    ELSE {})

\* memcpy(&x, vm->code + vm->pc, n), as <<bytes, vm>>.
memcpy(m, n) ==
    IF \A i \in 0 .. n - 1 : InCode(m.pc + i)
        THEN {<<[i \in 1 .. n |-> At(m.pc + i - 1)], m>>}
    ELSE {<<[i \in 1 .. n |-> 0], Crashed(m)>>}
            \cup (IF m.oob < MaxOob
                    THEN { << [i \in 1 .. n |->
                                IF InCode(m.pc + i - 1)
                                    THEN At(m.pc + i - 1) ELSE g],
                              [m EXCEPT !.oob = @ + 1] >> :
                            g \in GarbageBytes }
                    ELSE {})

\* The stack as seen once sp has been overwritten: the slots up to the new sp
\* that were not live hold whatever the memory holds there.
Resize(st, newsp, g) ==
    LET n == IF newsp < 0 THEN 0
             ELSE IF newsp >= STACK_SIZE THEN STACK_SIZE ELSE newsp + 1
    IN  [i \in 1 .. n |-> IF i <= Len(st) THEN st[i] ELSE g]

\* A store of the double v through vm->stack[i] with i outside the array.
\* The VM struct and the stack are two blocks of the same heap (newVM), so
\* the 8 bytes land on memory the run never reads again, on r1, on r2, or on
\* the adjacent ints pc and sp.
StrayWrite(m, v) ==
    UNION { {x, [x EXCEPT !.r1 = w], [x EXCEPT !.r2 = w]}
                \cup { [x EXCEPT !.pc = t[1], !.sp = t[2],
                                 !.stack = Resize(@, t[2], g)] :
                        g \in GarbageDoubles,
                        t \in { << IntOfMemory(SubSeq(mem, 1, 4), hostLittleEndian),
                                   IntOfMemory(SubSeq(mem, 5, 8), hostLittleEndian) >> :
                                mem \in {DoubleOfMemory(w, hostLittleEndian)} } } :
            x \in {m}, w \in {v} }

\* PUSH(vm, v): vm->stack[++vm->sp] = v.
PUSH(m, v) ==
    IF ~Running(m) THEN {m}
    ELSE IF InStack(m.sp + 1)
        THEN {[m EXCEPT !.sp = @ + 1, !.stack = Append(@, v)]}
    ELSE {Crashed(m)}
            \cup (IF m.oob < MaxOob
                    THEN StrayWrite([m EXCEPT !.sp = @ + 1, !.oob = @ + 1], v)
                    ELSE {})

\* POP(vm): vm->stack[vm->sp--], as <<value, vm>>.
POP(m) ==
    IF ~Running(m) THEN {<<Dbl(0), m>>}
    ELSE IF InStack(m.sp)
        THEN {<< m.stack[m.sp + 1],
                 [m EXCEPT !.sp = @ - 1, !.stack = SubSeq(@, 1, m.sp)] >>}
    ELSE {<<Dbl(0), Crashed(m)>>}
            \cup (IF m.oob < MaxOob
                    THEN { <<g, [m EXCEPT !.sp = @ - 1, !.oob = @ + 1]>> :
                            g \in GarbageDoubles }
                    ELSE {})

\* JMP(vm): the 4 bytes at pc copied over pc, swapped under #if LITTLE_ENDIAN.
JMP(m) ==
    { IF Running(t[2])
        THEN [t[2] EXCEPT !.pc =
                IntOfMemory(HostOrder(t[1], LITTLE_ENDIAN), hostLittleEndian)]
        ELSE t[2] :
      t \in memcpy(m, 4) }

(***************************************************************************)
(* The cases of the switch of run(), on the machine after the fetch.  Each *)
(* yields the set of machines the case may leave.                          *)
(***************************************************************************)
\* A faulty case HALT: return EXIT_FAILURE.
ExecHalt_Failure(op, m) == {[m EXCEPT !.status = EXIT_FAILURE]}

\* case HALT: return EXIT_SUCCESS.
ExecHalt(op, m) == {[m EXCEPT !.status = EXIT_SUCCESS]}

\* case NOP: break.
ExecNop(op, m) == {m}

\* case DCONST_M1 .. DCONST_2: PUSH(vm, literal).
ExecConst(op, m) == PUSH(m, ConstOf(op))

\* case DCONST: memcpy(&v, vm->code + vm->pc, 8); vm->pc += 8; the swap
\* under #if LITTLE_ENDIAN; PUSH(vm, v).
ExecDconst(op, m) ==
    UNION { IF Running(t[2])
                THEN PUSH([t[2] EXCEPT !.pc = @ + 8],
                          DoubleOfMemory(HostOrder(t[1], LITTLE_ENDIAN),
                                         hostLittleEndian))
                ELSE {t[2]} :
            t \in memcpy(m, 8) }

\* A faulty jump case: JMP(vm) without the test of r1 against r2.
ExecJump_Always(op, m) == JMP(m)

\* case JEQ .. JGE: if (r1 op r2) { JMP(vm); } break.
ExecJump(op, m) == IF Cond(op, m.r1, m.r2) THEN JMP(m) ELSE {m}

\* A faulty operand order, a = POP(vm); b = POP(vm): the top becomes the left
\* operand.
PopBA_Swapped(m) ==
    UNION { { <<pa[1], pb[1], pb[2]>> : pb \in POP(pa[2]) } : pa \in POP(m) }

\* b = POP(vm); a = POP(vm), as <<a, b, vm>>.
PopBA(m) ==
    UNION { { <<pa[1], pb[1], pa[2]>> : pa \in POP(pb[2]) } : pb \in POP(m) }

\* case ADD, MUL, SUB: b = POP; a = POP; PUSH(vm, a op b).
ExecArith(op, m) ==
    UNION { IF ~Running(t[3]) THEN {t[3]}
            ELSE UNION { PUSH(t[3], v) : v \in ArithResults(op, t[1], t[2]) } :
            t \in PopBA(m) }

\* A faulty case DIV: the diagnostic reports the offset of the DIV opcode,
\* vm->pc - 1.
ExecDiv_ReportsOwnOffset(op, m) ==
    UNION { IF ~Running(t[3]) THEN {t[3]}
            ELSE IF DEq(t[2], Dbl(0))
                THEN {[t[3] EXCEPT !.status = EXIT_FAILURE,
                                   !.diag = <<"Division by zero", t[3].pc - 1>>]}
            ELSE UNION { PUSH(t[3], v) : v \in ArithResults(op, t[1], t[2]) } :
            t \in PopBA(m) }

\* A faulty case DIV: the diagnostic is printed but the return is missing, so
\* the loop goes on.
ExecDiv_NoReturn(op, m) ==
    UNION { IF ~Running(t[3]) THEN {t[3]}
            ELSE IF DEq(t[2], Dbl(0))
                THEN {[t[3] EXCEPT !.diag = <<"Division by zero", t[3].pc>>]}
            ELSE UNION { PUSH(t[3], v) : v \in ArithResults(op, t[1], t[2]) } :
            t \in PopBA(m) }

\* case DIV: b = POP; a = POP; if (b == 0) the diagnostic with vm->pc and
\* return EXIT_FAILURE; PUSH(vm, a / b).
ExecDiv(op, m) ==
    UNION { IF ~Running(t[3]) THEN {t[3]}
            ELSE IF DEq(t[2], Dbl(0))
                THEN {[t[3] EXCEPT !.status = EXIT_FAILURE,
                                   !.diag = <<"Division by zero", t[3].pc>>]}
            ELSE UNION { PUSH(t[3], v) : v \in ArithResults(op, t[1], t[2]) } :
            t \in PopBA(m) }

\* case NEG: v = POP; PUSH(vm, -v).
ExecNeg(op, m) == UNION { PUSH(t[2], DNeg(t[1])) : t \in POP(m) }

\* case LD1, LD2: PUSH(vm, vm->r1) or PUSH(vm, vm->r2).
ExecLoad(op, m) == PUSH(m, IF op = LD1 THEN m.r1 ELSE m.r2)

\* A faulty case ST1, ST2: vm->r1 = vm->stack[vm->sp], the value stored stays
\* on the stack.
ExecStore_Peek(op, m) ==
    { IF ~Running(t[2]) THEN t[2]
      ELSE IF op = ST1 THEN [m EXCEPT !.r1 = t[1]]
      ELSE [m EXCEPT !.r2 = t[1]] :
      t \in POP(m) }

\* case ST1, ST2: vm->r1 = POP(vm) or vm->r2 = POP(vm).
ExecStore(op, m) ==
    { IF ~Running(t[2]) THEN t[2]
      ELSE IF op = ST1 THEN [t[2] EXCEPT !.r1 = t[1]]
      ELSE [t[2] EXCEPT !.r2 = t[1]] :
      t \in POP(m) }

\* A faulty case PRINT: v = vm->stack[vm->sp], the value printed stays on the
\* stack.
ExecPrint_Peek(op, m) ==
    { IF ~Running(t[2]) THEN t[2]
      ELSE [m EXCEPT !.out = Append(@, t[1])] :
      t \in POP(m) }

\* case PRINT: v = POP; printf("%f\n", v).
ExecPrint(op, m) ==
    { IF ~Running(t[2]) THEN t[2]
      ELSE [t[2] EXCEPT !.out = Append(@, t[1])] :
      t \in POP(m) }

\* A faulty default: the diagnostic reports vm->pc in place of the opcode.
ExecDefault_ReportsPc(op, m) ==
    {[m EXCEPT !.status = EXIT_FAILURE, !.diag = <<"InvalidOpcodeError", m.pc>>]}

\* default: the diagnostic with the opcode and return EXIT_FAILURE.
ExecDefault(op, m) ==
    {[m EXCEPT !.status = EXIT_FAILURE, !.diag = <<"InvalidOpcodeError", op>>]}

(***************************************************************************)
(* The state machine.                                                      *)
(***************************************************************************)
\* newVM(code): pc = 0, sp = -1, r1 = r2 = 0, a fresh stack; run() has not
\* fetched yet (opcode = -1).  The build is fixed before the run.
Init ==
    /\ code \in Programs
    /\ pc = 0
    /\ sp = -1
    /\ stack = <<>>
    /\ r1 = Dbl(0)
    /\ r2 = Dbl(0)
    /\ opcode = -1
    /\ status = "running"
    /\ out = <<>>
    /\ diag = <<>>
    /\ oob = 0
    /\ LITTLE_ENDIAN \in BOOLEAN
    /\ hostLittleEndian \in BOOLEAN

\* The machine m and the fetched byte op written back to the variables.
Becomes(m, op) ==
    /\ pc' = m.pc
    /\ sp' = m.sp
    /\ stack' = m.stack
    /\ r1' = m.r1
    /\ r2' = m.r2
    /\ status' = m.status
    /\ out' = m.out
    /\ diag' = m.diag
    /\ oob' = m.oob
    /\ opcode' = op
    /\ UNCHANGED <<code, LITTLE_ENDIAN, hostLittleEndian>>

\* The fetch at the head of for(;;), opcode = NCODE(vm), when the byte read is
\* one of ops: the set of <<opcode, vm after the fetch>>.
Fetched(ops) == { f \in NCODE(VM) : Running(f[2]) /\ f[1] \in ops }

\* One action per case of the switch: a whole iteration of for(;;), the fetch
\* and the case.
Halt ==
    /\ status = "running"
    /\ \E f \in Fetched({HALT}) :
        \E m \in ExecHalt(f[1], f[2]) : Becomes(m, f[1])

Nop ==
    /\ status = "running"
    /\ \E f \in Fetched({NOP}) :
        \E m \in ExecNop(f[1], f[2]) : Becomes(m, f[1])

Const ==
    /\ status = "running"
    /\ \E f \in Fetched(ConstOps) :
        \E m \in ExecConst(f[1], f[2]) : Becomes(m, f[1])

Dconst ==
    /\ status = "running"
    /\ \E f \in Fetched({DCONST}) :
        \E m \in ExecDconst(f[1], f[2]) : Becomes(m, f[1])

Jump ==
    /\ status = "running"
    /\ \E f \in Fetched(JumpOps) :
        \E m \in ExecJump(f[1], f[2]) : Becomes(m, f[1])

Arith3 ==
    /\ status = "running"
    /\ \E f \in Fetched(ArithOps) :
        \E m \in ExecArith(f[1], f[2]) : Becomes(m, f[1])

Div ==
    /\ status = "running"
    /\ \E f \in Fetched({DIV}) :
        \E m \in ExecDiv(f[1], f[2]) : Becomes(m, f[1])

Neg ==
    /\ status = "running"
    /\ \E f \in Fetched({NEG}) :
        \E m \in ExecNeg(f[1], f[2]) : Becomes(m, f[1])

Load ==
    /\ status = "running"
    /\ \E f \in Fetched(LoadOps) :
        \E m \in ExecLoad(f[1], f[2]) : Becomes(m, f[1])

Store ==
    /\ status = "running"
    /\ \E f \in Fetched(StoreOps) :
        \E m \in ExecStore(f[1], f[2]) : Becomes(m, f[1])

PrintOp ==
    /\ status = "running"
    /\ \E f \in Fetched({PRINT}) :
        \E m \in ExecPrint(f[1], f[2]) : Becomes(m, f[1])

Default ==
    /\ status = "running"
    /\ \E f \in Fetched(Byte \ Opcodes) :
        \E m \in ExecDefault(f[1], f[2]) : Becomes(m, f[1])

\* The fetch itself faults: the opcode read lies outside the buffer.
FetchFault ==
    /\ status = "running"
    /\ \E f \in NCODE(VM) :
        /\ ~Running(f[2])
        /\ Becomes(f[2], opcode)

Next ==
    \/ Halt
    \/ Nop
    \/ Const
    \/ Dconst
    \/ Jump
    \/ Arith3
    \/ Div
    \/ Neg
    \/ Load
    \/ Store
    \/ PrintOp
    \/ Default
    \/ FetchFault

Spec == Init /\ [][Next]_vars

\* run() is a loop with no suspension point: while it has not returned it
\* takes its next iteration.
FairSpec == Spec /\ WF_vars(Next)

(***************************************************************************)
(* Vocabulary of the properties.                                           *)
(***************************************************************************)
\* The next iteration fetches, inside the buffer, an opcode of ops.
AtOp(ops) == status = "running" /\ InCode(pc) /\ At(pc) \in ops

\* The next iteration is a conditional jump whose condition holds / fails.
AtTakenJump    == AtOp(JumpOps) /\ Cond(At(pc), r1, r2)
AtNotTakenJump == AtOp(JumpOps) /\ ~Cond(At(pc), r1, r2)

\* The run has ended other than by return EXIT_SUCCESS: run() returned
\* EXIT_FAILURE, or an out-of-bounds access killed the process.
Failed == status \in {EXIT_FAILURE, "crashed"}

\* The stack below its two top values.
Below2 == SubSeq(stack, 1, sp - 1)

(***************************************************************************)
(* C1.  A conditional jump at offset p whose condition on (r1, r2) is      *)
(* false leaves pc = p + 5: the 4 operand bytes are skipped.               *)
(* The code does not do this: a jump that is not taken leaves pc = p + 1,  *)
(* and the operand bytes are fetched as opcodes.                           *)
(***************************************************************************)
C1_NotTakenSkipsOperand ==
    [][AtNotTakenJump => pc' = pc + 5]_vars

(***************************************************************************)
(* C2.  A conditional jump at offset p whose condition holds leaves pc at  *)
(* the unsigned 32-bit big-endian value of its operand bytes b0 .. b3, for *)
(* all byte values, and leaves stack, sp, r1 and r2 unchanged.             *)
(* The code does not do this: pc is a signed int, and the byte order of    *)
(* the result depends on the build.  (b0 * 2^24 is kept out of the         *)
(* formula so that it is evaluated without overflow.)                      *)
(***************************************************************************)
C2_TakenJumpLandsOnOperand ==
    [][(AtTakenJump /\ InCode(pc + 4))
        => /\ pc' >= 0
           /\ pc' \div 16777216 = At(pc + 1)
           /\ pc' % 16777216 = At(pc + 2) * 65536 + At(pc + 3) * 256 + At(pc + 4)
           /\ UNCHANGED <<stack, sp, r1, r2>>]_vars

(***************************************************************************)
(* C3.  With a pushed before b (b on top), ADD, SUB, MUL and DIV (b # 0)   *)
(* replace the two top values by a + b, a - b, a * b, a / b, the value     *)
(* pushed earlier being the left operand; and the program                  *)
(* [DCONST_2, DCONST_1, SUB, PRINT, HALT] prints 1 and ends with success.  *)
(***************************************************************************)
C3_ArithmeticOnTwoTopValues ==
    /\ [][(/\ AtOp(ArithOps \cup {DIV})
           /\ sp >= 1 /\ InStack(sp)
           /\ (At(pc) = DIV => ~DEq(stack[sp + 1], Dbl(0))))
            => /\ status' = "running"
               /\ sp' = sp - 1
               /\ stack' = Append(Below2, Apply(At(pc), stack[sp], stack[sp + 1]))
               /\ UNCHANGED <<r1, r2, out>>]_vars
    /\ [](code = bytecode /\ status # "running"
            => status = EXIT_SUCCESS /\ out = << <<63, 240, 0, 0, 0, 0, 0, 0>> >>)

\* bytecode right after its SUB: 2 and 1 have been replaced by 1.
C3_Witness ==
    /\ code = bytecode
    /\ status = "running"
    /\ opcode = SUB
    /\ stack = << <<63, 240, 0, 0, 0, 0, 0, 0>> >>

(***************************************************************************)
(* C4.  DIV executed with a top of stack equal to 0 ends the run at once   *)
(* with failure: no quotient is pushed, nothing is printed by that step    *)
(* and nothing happens after it; [DCONST_1, DCONST_0, DIV, PRINT, HALT]    *)
(* ends in failure having printed nothing.                                 *)
(***************************************************************************)
C4_DivisionByZeroIsFatal ==
    /\ [][(AtOp({DIV}) /\ InStack(sp) /\ DEq(stack[sp + 1], Dbl(0)))
            => /\ status' \in {EXIT_FAILURE, "crashed"}
               /\ out' = out
               /\ sp >= 1 => /\ status' = EXIT_FAILURE
                             /\ sp' = sp - 2
                             /\ stack' = Below2]_vars
    /\ [][status # "running" => UNCHANGED vars]_vars
    /\ [](code = divByZeroCode /\ status # "running"
            => status = EXIT_FAILURE /\ out = <<>> /\ opcode = DIV)

\* divByZeroCode after its DIV: failed, both operands gone, nothing printed.
C4_Witness ==
    /\ code = divByZeroCode
    /\ status = EXIT_FAILURE
    /\ opcode = DIV
    /\ sp = -1
    /\ out = <<>>

(***************************************************************************)
(* C5.  A fetched byte that is not one of the 23 opcode values ends the    *)
(* run at once with failure, reporting that byte and leaving stack, sp,    *)
(* r1 and r2 unchanged; [0xFF, HALT] ends in failure reporting 0xFF and    *)
(* never reaches HALT.                                                     *)
(***************************************************************************)
C5_ListedOpcodes ==
    {0, 10, 11, 12, 13, 15, 16, 17, 18, 19, 20, 21, 96, 97, 98, 100, 112,
     240, 242, 244, 245, 246, 247}

C5_InvalidOpcodeIsFatal ==
    /\ [][(status = "running" /\ pc' = pc + 1 /\ opcode' \notin C5_ListedOpcodes)
            => /\ status' = EXIT_FAILURE
               /\ diag' = <<"InvalidOpcodeError", opcode'>>
               /\ UNCHANGED <<stack, sp, r1, r2, out>>]_vars
    /\ [](Cardinality(C5_ListedOpcodes) = 23)
    /\ [](code = invalidCode /\ status # "running"
            => /\ status = EXIT_FAILURE
               /\ diag = <<"InvalidOpcodeError", 255>>
               /\ opcode = 255
               /\ pc = 1)

\* invalidCode after its first fetch.
C5_Witness ==
    /\ code = invalidCode
    /\ status = EXIT_FAILURE
    /\ diag = <<"InvalidOpcodeError", 255>>
    /\ pc = 1

(***************************************************************************)
(* C6.  A run ends with success exactly when the byte fetched last as an   *)
(* opcode is HALT; every other end of a run is a failure (EXIT_FAILURE     *)
(* returned, or the process killed by an out-of-bounds access).            *)
(***************************************************************************)
C6_SuccessIffHalt ==
    status # "running"
        => /\ (status = EXIT_SUCCESS) <=> (opcode = HALT)
           /\ status # EXIT_SUCCESS => Failed

\* A run that printed something and then reached HALT.
C6_Witness == status = EXIT_SUCCESS /\ opcode = HALT /\ out # <<>>

(***************************************************************************)
(* C7.  The shipped Fibonacci program prints exactly 0, 1, 1, 2, 3, 5, 8,  *)
(* 13, 21, 34, 55, 89, 144, 233 and ends with success.                     *)
(* The code does this only on a build whose byte swap matches the host:    *)
(* elsewhere the constant 100.0 is decoded byte-reversed and the loop is   *)
(* left after 0, 1, 1, 2.                                                  *)
(***************************************************************************)
C7_FibonacciOutput ==
    (code = fibonacciCode /\ status # "running")
        => /\ status = EXIT_SUCCESS
           /\ out = << Dbl(0), Dbl(1), Dbl(1), Dbl(2), Dbl(3), Dbl(5), Dbl(8),
                       Dbl(13), Dbl(21), Dbl(34), Dbl(55), Dbl(89), Dbl(144),
                       Dbl(233) >>

(***************************************************************************)
(* C8.  In every reachable state the stack size sp + 1 lies between 0 and  *)
(* the capacity 256.                                                       *)
(* The code does not keep this: PUSH and POP check nothing.                *)
(***************************************************************************)
C8_StackWithinCapacity == sp >= -1 /\ sp <= STACK_SIZE - 1

(***************************************************************************)
(* C9.  Every opcode fetch and every operand read (4 bytes for a taken     *)
(* jump, 8 for DCONST) addresses offsets of the buffer only.               *)
(* The code does not keep this: NCODE, JMP and memcpy check nothing.       *)
(***************************************************************************)
C9_PcWithinBuffer ==
    status = "running"
        => /\ InCode(pc)
           /\ At(pc) = DCONST => InCode(pc + 8)
           /\ AtTakenJump => InCode(pc + 4)

(***************************************************************************)
(* C10.  Every run eventually reaches a terminal status.                   *)
(* The code does not do this: a jump that stays taken loops for ever.      *)
(***************************************************************************)
C10_EveryRunTerminates == <>(status # "running")

(***************************************************************************)
(* C10, as amended.  A run reaches a terminal status unless it makes an    *)
(* out-of-bounds access or arrives again and again at a conditional jump   *)
(* whose condition holds.                                                  *)
(***************************************************************************)
C10_TerminatesUnlessJumping ==
    <>(status # "running" \/ oob > 0) \/ []<>AtTakenJump

\* A run that met a jump it did not take and went on to its end in bounds.
C10_Witness ==
    /\ code \in JumpPrograms
    /\ status # "running"
    /\ oob = 0
    /\ pc > 5

(***************************************************************************)
(* C11.  r1 and r2 start at 0 and are changed only by the store opcodes:   *)
(* a step of any opcode other than ST1 leaves r1 unchanged, a step of any  *)
(* opcode other than ST2 leaves r2 unchanged, and ST1 (ST2) sets r1 (r2)   *)
(* to the popped top value and leaves the other register unchanged.        *)
(* The code does not keep this: PUSH stores through an unchecked index,    *)
(* and a store below or above the stack array can land on the registers.   *)
(***************************************************************************)
C11_RegistersChangedOnlyByStores ==
    /\ [](opcode = -1 => r1 = Dbl(0) /\ r2 = Dbl(0))
    /\ [][/\ opcode' # ST1 => r1' = r1
          /\ opcode' # ST2 => r2' = r2
          /\ (AtOp({ST1}) /\ InStack(sp) /\ status' = "running")
                => r1' = stack[sp + 1] /\ r2' = r2
          /\ (AtOp({ST2}) /\ InStack(sp) /\ status' = "running")
                => r2' = stack[sp + 1] /\ r1' = r1]_vars

(***************************************************************************)
(* run() as a relation on machines, for the claims that compare whole      *)
(* runs of one program.                                                    *)
(***************************************************************************)
\* switch (opcode): the case taken for the byte op.
Switch(op, m) ==
    IF op = HALT THEN ExecHalt(op, m)
    ELSE IF op = NOP THEN ExecNop(op, m)
    ELSE IF op \in ConstOps THEN ExecConst(op, m)
    ELSE IF op = DCONST THEN ExecDconst(op, m)
    ELSE IF op \in JumpOps THEN ExecJump(op, m)
    ELSE IF op \in ArithOps THEN ExecArith(op, m)
    ELSE IF op = DIV THEN ExecDiv(op, m)
    ELSE IF op = NEG THEN ExecNeg(op, m)
    ELSE IF op \in LoadOps THEN ExecLoad(op, m)
    ELSE IF op \in StoreOps THEN ExecStore(op, m)
    ELSE IF op = PRINT THEN ExecPrint(op, m)
    ELSE ExecDefault(op, m)

\* One iteration of for(;;) from the machine m: the machines it may leave.
Iteration(m) ==
    UNION { IF Running(f[2]) THEN Switch(f[1], f[2]) ELSE {f[2]} :
            f \in NCODE(m) }

\* Iterations of for(;;) followed when whole runs are compared.
MaxSteps == 12

RECURSIVE Results(_, _)
\* What the runs from m that end within n iterations show to the outside:
\* the terminal status and the values printed.
Results(m, n) ==
    IF ~Running(m) THEN {<<m.status, m.out>>}
    ELSE IF n = 0 THEN {}
    ELSE UNION { Results(x, n - 1) : x \in Iteration(m) }

(***************************************************************************)
(* C12.  Two runs of the same bytecode from the same initial state print   *)
(* the same values and end with the same status, for every program,        *)
(* including those that pop more than they pushed or fetch outside the     *)
(* buffer: the runs of a program have at most one result.                  *)
(* The code does not keep this: what an out-of-bounds read returns is not  *)
(* fixed by the program.                                                   *)
(***************************************************************************)
C12_RunsAreRepeatable ==
    opcode = -1 => Cardinality(Results(VM, MaxSteps)) <= 1

(***************************************************************************)
(* C13.  The output is exactly the values popped by the executed PRINT     *)
(* instructions, in execution order: the output starts empty, only a      *)
(* PRINT step changes it, by appending one value while sp drops by one,    *)
(* and a PRINT on a stack that has a top removes that top, appends it and  *)
(* pushes nothing.                                                         *)
(***************************************************************************)
C13_OutputIsWhatPrintPops ==
    /\ [](opcode = -1 => out = <<>>)
    /\ [][out' # out
            => /\ opcode' = PRINT
               /\ pc' = pc + 1
               /\ Len(out') = Len(out) + 1
               /\ SubSeq(out', 1, Len(out)) = out
               /\ sp' = sp - 1]_vars
    /\ [][(AtOp({PRINT}) /\ InStack(sp))
            => /\ status' = "running"
               /\ out' = Append(out, stack[sp + 1])
               /\ sp' = sp - 1
               /\ stack' = SubSeq(stack, 1, sp)]_vars

\* The Fibonacci program after its fourth PRINT: 0, 1, 1, 2 printed in order
\* and the value printed last gone from the stack.
C13_Witness ==
    /\ code = fibonacciCode
    /\ opcode = PRINT
    /\ out = <<Dbl(0), Dbl(1), Dbl(1), Dbl(2)>>
    /\ sp = -1

(***************************************************************************)
(* C14.  Each opcode changes the stack depth by a fixed amount and leaves  *)
(* every slot below the ones it consumes unchanged: +1 for DCONST_M1/0/1/2,*)
(* DCONST, LD1 and LD2; -1 for ADD, SUB, MUL, DIV (non-zero divisor), ST1, *)
(* ST2 and PRINT; 0 for NEG, NOP, HALT and the six jumps.                  *)
(* The code does not keep this: a PUSH outside the array can store over    *)
(* vm->sp itself.                                                          *)
(***************************************************************************)
C14_Delta(op) ==
    IF op \in ConstOps \cup {DCONST} \cup LoadOps THEN 1
    ELSE IF op \in ArithOps \cup {DIV} \cup StoreOps \cup {PRINT} THEN -1
    ELSE 0

C14_Consumed(op) ==
    IF op \in ArithOps \cup {DIV} THEN 2
    ELSE IF op \in StoreOps \cup {PRINT, NEG} THEN 1
    ELSE 0

C14_FixedStackEffect ==
    [][\A op \in Opcodes :
        (/\ AtOp({op})
         /\ status' # "crashed"
         /\ ~(op = DIV /\ status' = EXIT_FAILURE))
            => /\ sp' = sp + C14_Delta(op)
               /\ \A i \in 1 .. Len(stack) :
                    (i <= sp + 1 - C14_Consumed(op) /\ i <= Len(stack'))
                        => stack'[i] = stack[i]]_vars

(***************************************************************************)
(* C15.  DCONST at offset p pushes exactly one value, whose bit pattern is *)
(* the 8 bytes at offsets p+1 .. p+8 with the most significant byte first, *)
(* and leaves pc = p + 9.                                                  *)
(* The code does this only on a build whose byte swap matches the host:    *)
(* elsewhere the pattern pushed is the 8 bytes in reverse order.           *)
(***************************************************************************)
C15_DconstIsBigEndian ==
    [][(AtOp({DCONST}) /\ InCode(pc + 8) /\ InStack(sp + 1))
        => /\ status' = "running"
           /\ pc' = pc + 9
           /\ sp' = sp + 1
           /\ stack' = Append(stack, [i \in 1 .. 8 |-> At(pc + i)])]_vars

(***************************************************************************)
(* C16.  convertToLittleEndian(v, size) reverses the bytes of v (byte i of *)
(* the result is byte size-1-i of the input) for every size, odd sizes     *)
(* included, so applying it twice restores the bytes: decoding what it     *)
(* encoded gives back every 4-byte and 8-byte value.  Where the swap is    *)
(* compiled in, a taken jump loads pc from its operand reversed.           *)
(* The inputs are the byte strings of every size up to MaxSize found at    *)
(* every offset of the program the run starts with, which no step writes.  *)
(***************************************************************************)
MaxSize == 9

C16_ConvertReverses ==
    /\ [](opcode = -1
            => \A i \in 1 .. Len(code) : \A size \in 0 .. MaxSize :
                i + size - 1 <= Len(code)
                    => LET b == SubSeq(code, i, i + size - 1)
                       IN  /\ convertToLittleEndian(b, size)
                                = [k \in 1 .. size |-> b[size + 1 - k]]
                           /\ convertToLittleEndian(
                                convertToLittleEndian(b, size), size) = b)
    /\ [][code' = code]_vars
    /\ [][(LITTLE_ENDIAN /\ AtTakenJump /\ InCode(pc + 4))
            => pc' = IntOfMemory(<<At(pc + 4), At(pc + 3), At(pc + 2), At(pc + 1)>>,
                                 hostLittleEndian)]_vars

\* A jump taken on a build with the swap, on a little-endian host: the
\* operand 00 00 00 09 reversed in memory reads as 9.
C16_Witness ==
    /\ LITTLE_ENDIAN
    /\ hostLittleEndian
    /\ code \in JumpPrograms
    /\ opcode \in JumpOps
    /\ SubSeq(code, 6, 9) = <<0, 0, 0, 9>>
    /\ pc = 9

(***************************************************************************)
(* C17.  In the terminal state of a division-by-zero failure of a DIV at   *)
(* offset p, the program counter reported is p + 1, both operands have     *)
(* been removed (sp is 2 lower than before the DIV, nothing pushed back)   *)
(* and r1 and r2 are unchanged.                                            *)
(***************************************************************************)
C17_DivisionByZeroReport ==
    /\ [][(AtOp({DIV}) /\ status' = EXIT_FAILURE)
            => /\ diag' = <<"Division by zero", pc + 1>>
               /\ pc' = pc + 1
               /\ sp' = sp - 2
               /\ (InStack(sp) /\ sp >= 1) => stack' = Below2
               /\ UNCHANGED <<r1, r2, out>>]_vars
    /\ []((diag # <<>> /\ diag[1] = "Division by zero")
            => status = EXIT_FAILURE /\ opcode = DIV /\ diag[2] = pc)

\* DIV at offset 2 of two constants and a zero divisor: PC = 3 reported.
C17_Witness ==
    /\ code \in OpPrograms
    /\ status = EXIT_FAILURE
    /\ diag = <<"Division by zero", 3>>
    /\ pc = 3
    /\ sp = -1
    /\ stack = <<>>

(***************************************************************************)
(* C18.  During the whole run of the shipped Fibonacci program the stack   *)
(* neither underflows nor grows: sp stays within -1 .. 2, sp = 1 every     *)
(* time pc reaches the loop head at offset 6 and when the run halts, and   *)
(* every pc used for a fetch lies inside the fibonacciCode buffer.         *)
(***************************************************************************)
C18_FibonacciStaysInBounds ==
    code = fibonacciCode
        => /\ sp >= -1 /\ sp <= 2
           /\ oob = 0
           /\ status = "running" => InCode(pc)
           /\ (status = "running" /\ pc = 6) => sp = 1
           /\ status # "running" => status = EXIT_SUCCESS /\ sp = 1

\* The loop head reached again after eight values were printed.
C18_Witness ==
    /\ code = fibonacciCode
    /\ status = "running"
    /\ pc = 6
    /\ sp = 1
    /\ Len(out) = 8

====
